---- MODULE Spec2Model ----
(***************************************************************************)
(* conv2dV1.cu: a 2D convolution of an H x W matrix with an R x R filter   *)
(* on a CUDA device.  The host (main) reads the two files, allocates three *)
(* device buffers, copies the inputs, launches conv2d_kernel over a grid   *)
(* of 16x16 blocks, checks the last error, copies the output back, prints  *)
(* it and releases the buffers.  Every thread of the grid is a worker that *)
(* runs the kernel body once; the workers run in any order, and they run   *)
(* concurrently with the host until the blocking device-to-host copy.      *)
(*                                                                         *)
(* float values are modelled by integers.  A read outside a buffer is      *)
(* undefined: it faults the kernel, or it yields what the memory beyond    *)
(* the buffers holds, any value of Garbage, the same for the whole run.    *)
(***************************************************************************)
EXTENDS Integers, Sequences, FiniteSets, TLC

VARIABLES
  argc,        \* main's argc
  pc,          \* the statement of main about to execute
  exitCode,    \* the process's exit code, Running while it runs
  failedAt,    \* the statement whose failure ended the run ("none" otherwise)
  err,         \* main's cudaError_t err
  H, W, R,     \* the dimensions read from the two files
  h_input, h_filter, h_output,   \* host buffers, index -> value
  dbuf,        \* state of each device pointer: "null", "allocated", "released"
  nAlloc,      \* cudaMalloc calls per device buffer
  nFree,       \* cudaFree calls per device buffer
  misuse,      \* a device buffer was used while not allocated
  d_input, d_filter, d_output,   \* device buffers' contents, index -> value
  blockDim,    \* dim3 blockDim of the launch, <<x, y>>
  gridDim,     \* dim3 gridDim of the launch, <<x, y>>
  lastError,   \* the device's last-error register
  wpc,         \* worker -> "ready" | "done" | "faulted", the threads of the grid
  writers,     \* output index -> the workers that wrote it
  nWrites,     \* output index -> the number of writes to it
  oobWrite,    \* a write landed outside [0, H*W)
  touched,     \* the workers that read or wrote device memory
  readFaults,  \* the kinds of bad read the kernel performed
  devFault,    \* the kernel faulted on an out-of-bounds read (a sticky error)
  junk,        \* what the memory beyond the device buffers holds, once read
  stdout,      \* the values writeOutput printed
  written,     \* writeOutput ran
  stepFailed   \* some step of the run failed, detected or not

vars == <<argc, pc, exitCode, failedAt, err, H, W, R, h_input, h_filter,
          h_output, dbuf, nAlloc, nFree, misuse, d_input, d_filter, d_output,
          blockDim, gridDim, lastError, wpc, writers, nWrites, oobWrite,
          touched, readFaults, devFault, junk, stdout, written, stepFailed>>

hostVars == <<argc, pc, exitCode, failedAt, err, H, W, R, h_input, h_filter,
              h_output, dbuf, nAlloc, nFree, d_input, d_filter,
              blockDim, gridDim, lastError, stdout, written, stepFailed>>

----------------------------------------------------------------------------
(* Bounds of the model and constants of the program.                        *)

MaxDim == 2          \* H and W range over 1..MaxDim in the full program
MaxPad == 1          \* R ranges over the odd sides 1, 3, .., 2*MaxPad + 1
BlockSide == 2       \* side of the block the interleaving model launches
GridMaxDim == 33     \* H and W range over 1..GridMaxDim for the grid planner
TILE == 16           \* dim3 blockDim(16, 16)
EXIT_FAILURE == 1
Running == 0 - 2     \* no exit code yet
Unset == 0 - 1       \* an element of a buffer nobody has written
Garbage == {0, 7}    \* what an out-of-bounds read may return

Buffers == {"d_input", "d_filter", "d_output"}
InputKinds == {"pos"}
FilterKinds == {"u2", "pos"}

\* The contents of a file holding n values, as readInput / readFilter store it.
FileValues(kind, n) ==
  [k \in 0..(n - 1) |-> CASE kind = "pos" -> k + 1
                          [] kind = "u2" -> 2]

\* A buffer of n elements nobody has written.
Fresh(n) == [k \in 0..(n - 1) |-> Unset]

\* Element k of a host or device buffer as a copy reads it.
At(buf, k) == IF k \in DOMAIN buf THEN buf[k] ELSE Unset

----------------------------------------------------------------------------
(* conv2d_kernel: one worker is one thread <<blockIdx.x, blockIdx.y,        *)
(* threadIdx.x, threadIdx.y>> of the launched grid.                         *)

GridWorkers ==
  (0..(gridDim[1] - 1)) \X (0..(gridDim[2] - 1))
    \X (0..(blockDim[1] - 1)) \X (0..(blockDim[2] - 1))

\* int row = blockIdx.y * blockDim.y + threadIdx.y
Row(w) == w[2] * blockDim[2] + w[4]

\* int col = blockIdx.x * blockDim.x + threadIdx.x
Col(w) == w[1] * blockDim[1] + w[3]

\* A guard that forgets the column: if (row < H)
InRangeRowOnly(row, col) == row < H

\* if (row < H && col < W)
InRange(row, col) == row < H /\ col < W

\* int pad = R/2
Pad == R \div 2

\* iterations of each of the two loops, i and j from -pad to pad
Span == 2 * Pad + 1

\* if (r >= 0 && r < H && c >= 0 && c < H): the column is tested against H
TapGuard(r, c) == r >= 0 /\ r < H /\ c >= 0 /\ c < H

\* input[idx], g when idx is outside the buffer
InputAt(idx, g) == IF idx \in DOMAIN d_input THEN d_input[idx] ELSE g

\* filter[idx], g when idx is outside the buffer
FilterAt(idx, g) == IF idx \in DOMAIN d_filter THEN d_filter[idx] ELSE g

\* The t-th iteration of the nested loops, in the order the code runs them.
TapI(t) == (t \div Span) - Pad
TapJ(t) == (t % Span) - Pad

\* What iteration t adds to sum.
TapTerm(row, col, t, g) ==
  LET i == TapI(t)
      j == TapJ(t)
      r == row + i
      c == col + j
      filter_row == i + Pad
      filter_col == j + Pad
  IN  IF TapGuard(r, c)
        THEN InputAt(r * W + c, g) * FilterAt(filter_row * R + filter_col, g)
        ELSE 0

RECURSIVE Accumulate(_, _, _, _)
\* sum after the first t iterations
Accumulate(row, col, t, g) ==
  IF t = 0 THEN 0
  ELSE Accumulate(row, col, t - 1, g) + TapTerm(row, col, t - 1, g)

\* sum when the loops end
KernelSum(row, col, g) == Accumulate(row, col, Span * Span, g)

\* The kinds of bad read the worker at (row, col) performs.
BadReads(row, col) ==
  LET taps == {t \in 0..(Span * Span - 1) :
                 TapGuard(row + TapI(t), col + TapJ(t))}
  IN  {"input_oob" : t \in {u \in taps :
          (row + TapI(u)) * W + (col + TapJ(u)) \notin DOMAIN d_input}}
      \cup {"input_wrap" : t \in {u \in taps : col + TapJ(u) >= W}}
      \cup {"filter_oob" : t \in {u \in taps :
          (TapI(u) + Pad) * R + (TapJ(u) + Pad) \notin DOMAIN d_filter}}

\* The kernel is in flight from the launch to the end of the blocking copy;
\* a fault stops it.
InFlight == pc \in {"lastErr", "hmalloc", "cpyOut"}

\* Every thread of the grid has run the kernel body to its end.
KernelDone == DOMAIN wpc # {} /\ \A w \in DOMAIN wpc : wpc[w] = "done"

\* One thread runs the whole kernel body.
Worker(w) ==
  /\ InFlight
  /\ w \in DOMAIN wpc
  /\ wpc[w] = "ready"
  /\ ~devFault
  /\ LET row == Row(w)
         col == Col(w)
     IN  IF InRange(row, col)
           THEN LET bad == BadReads(row, col)
                    ub == bad \cap {"input_oob", "filter_oob"} # {}
                    idx == row * W + col
                IN  /\ readFaults' = readFaults \cup bad
                    /\ touched' = touched \cup {w}
                    /\ misuse' = (misuse \/ \E b \in Buffers : dbuf[b] # "allocated")
                    /\ \E g \in (IF ~ub THEN {0}
                                  ELSE IF junk = Unset THEN Garbage ELSE {junk}),
                          fault \in (IF ub THEN BOOLEAN ELSE {FALSE}) :
                         IF fault
                           THEN /\ wpc' = [wpc EXCEPT ![w] = "faulted"]
                                /\ devFault' = TRUE
                                /\ UNCHANGED <<d_output, writers, nWrites, oobWrite,
                                               junk>>
                           ELSE /\ wpc' = [wpc EXCEPT ![w] = "done"]
                                /\ devFault' = devFault
                                /\ junk' = IF ub THEN g ELSE junk
                                /\ IF idx \in DOMAIN d_output
                                     THEN /\ d_output' = [d_output EXCEPT
                                                 ![idx] = KernelSum(row, col, g)]
                                          /\ writers' = [writers EXCEPT
                                                 ![idx] = @ \cup {w}]
                                          /\ nWrites' = [nWrites EXCEPT ![idx] = @ + 1]
                                          /\ oobWrite' = oobWrite
                                     ELSE /\ oobWrite' = TRUE
                                          /\ UNCHANGED <<d_output, writers, nWrites>>
           ELSE /\ wpc' = [wpc EXCEPT ![w] = "done"]
                /\ UNCHANGED <<readFaults, touched, misuse, devFault, d_output,
                               writers, nWrites, oobWrite, junk>>
  /\ UNCHANGED hostVars

----------------------------------------------------------------------------
(* main, statement by statement.  A call and the check of its result are    *)
(* one step.                                                                *)

kernelVars == <<wpc, writers, nWrites, oobWrite, touched, readFaults, devFault,
                junk>>

\* A check that prints nothing and goes on: the statement after a call
\* whatever the call returned.
AfterCallUnchecked(ok, next) == next

\* if (err != cudaSuccess) { fprintf(stderr, ...); exit(EXIT_FAILURE); }
AfterCall(ok, next) == IF ok THEN next ELSE "failed"

\* The host part of a step from statement `at` whose call returned ok and
\* whose check leads to statement `to`.
StepTo(at, ok, to) ==
  /\ pc' = to
  /\ failedAt' = IF pc' = "failed" THEN at ELSE failedAt
  /\ exitCode' = IF pc' = "failed" THEN EXIT_FAILURE ELSE exitCode
  /\ stepFailed' = (stepFailed \/ ~ok)

Step(at, ok, next) == StepTo(at, ok, AfterCall(ok, next))

\* if (argc < 3) return -1;
CheckArgs ==
  /\ pc = "args"
  /\ IF argc < 3
       THEN /\ pc' = "failed"
            /\ failedAt' = "args"
            /\ exitCode' = 255
            /\ stepFailed' = TRUE
       ELSE /\ pc' = "readInput"
            /\ UNCHANGED <<failedAt, exitCode, stepFailed>>
  /\ UNCHANGED <<argc, err, H, W, R, h_input, h_filter, h_output, dbuf, nAlloc,
                 nFree, misuse, d_input, d_filter, d_output, blockDim, gridDim,
                 lastError, stdout, written>>
  /\ UNCHANGED kernelVars

\* The header of the input file as `inFile >> H >> W` leaves H and W, and
\* whether it was malformed: two integers, or 0 for a token that is no
\* integer (the extraction is not checked; after a failed first token W keeps
\* whatever it held).
InputHeaders ==
  {<<h, w, FALSE>> : h \in 1..MaxDim, w \in 1..MaxDim}
    \cup {<<0, w, TRUE>> : w \in 0..1}
    \cup {<<1, 0, TRUE>>}

\* readInput(argv[1], h_input, H, W)
readInput ==
  /\ pc = "readInput"
  /\ \E open \in BOOLEAN, hdr \in InputHeaders, enough \in BOOLEAN,
        kind \in InputKinds :
       LET n == hdr[1] * hdr[2]
           ok == open /\ (enough \/ n = 0)
       IN  /\ open \/ (hdr = <<0, 0, TRUE>> /\ enough /\ kind = "pos")
           /\ enough \/ kind = "pos"
           /\ H' = IF open THEN hdr[1] ELSE H
           /\ W' = IF open THEN hdr[2] ELSE W
           /\ h_input' = IF ok THEN FileValues(kind, n) ELSE h_input
           /\ pc' = AfterCall(ok, "readFilter")
           /\ failedAt' = IF pc' = "failed" THEN "readInput" ELSE failedAt
           /\ exitCode' = IF pc' = "failed" THEN EXIT_FAILURE ELSE exitCode
           /\ stepFailed' = (stepFailed \/ ~ok \/ hdr[3])
  /\ UNCHANGED <<argc, err, R, h_filter, h_output, dbuf, nAlloc, nFree, misuse,
                 d_input, d_filter, d_output, blockDim, gridDim, lastError,
                 stdout, written>>
  /\ UNCHANGED kernelVars

\* The header of the filter file as `inFile >> R` leaves R, and whether it
\* was malformed: an odd side, or the leading integer of a token such as
\* "1.0" (the extraction is not checked, and the rest of the token is read
\* as the first value).
FilterHeaders ==
  {<<2 * p + 1, FALSE>> : p \in 0..MaxPad} \cup {<<1, TRUE>>}

\* readFilter(argv[2], h_filter, R)
readFilter ==
  /\ pc = "readFilter"
  /\ \E open \in BOOLEAN, hdr \in FilterHeaders, enough \in BOOLEAN,
        kind \in FilterKinds :
       LET n == hdr[1] * hdr[1]
           ok == open /\ (enough \/ n = 0)
       IN  /\ open \/ (hdr = <<1, FALSE>> /\ enough /\ kind = "pos")
           /\ enough \/ kind = "pos"
           /\ R' = IF open THEN hdr[1] ELSE R
           /\ h_filter' = IF ~ok THEN h_filter
                          ELSE IF hdr[2]
                            THEN [k \in 0..(n - 1) |->
                                    IF k = 0 THEN 0 ELSE FileValues(kind, n)[k - 1]]
                            ELSE FileValues(kind, n)
           /\ pc' = AfterCall(ok, "hostCheck")
           /\ failedAt' = IF pc' = "failed" THEN "readFilter" ELSE failedAt
           /\ exitCode' = IF pc' = "failed" THEN EXIT_FAILURE ELSE exitCode
           /\ stepFailed' = (stepFailed \/ ~ok \/ hdr[2])
  /\ UNCHANGED <<argc, err, H, W, h_input, h_output, dbuf, nAlloc, nFree, misuse,
                 d_input, d_filter, d_output, blockDim, gridDim, lastError,
                 stdout, written>>
  /\ UNCHANGED kernelVars

\* if (h_input == NULL || h_filter == NULL) exit(EXIT_FAILURE);
\* malloc may return NULL for a request of 0 bytes.
HostCheck ==
  /\ pc = "hostCheck"
  /\ \E null \in (IF H * W = 0 THEN BOOLEAN ELSE {FALSE}) :
       Step("hostCheck", ~null, "mallocIn")
  /\ UNCHANGED <<argc, err, H, W, R, h_input, h_filter, h_output, dbuf, nAlloc,
                 nFree, misuse, d_input, d_filter, d_output, blockDim, gridDim,
                 lastError, stdout, written>>
  /\ UNCHANGED kernelVars

\* The value of err after a call.
ErrOf(ok) == IF ok THEN "cudaSuccess" ELSE "cudaError"

\* err = cudaMalloc((void **)&d_input, H * W * sizeof(float));
MallocInput ==
  /\ pc = "mallocIn"
  /\ \E ok \in BOOLEAN :
       /\ err' = ErrOf(ok)
       /\ nAlloc' = [nAlloc EXCEPT !["d_input"] = @ + 1]
       /\ dbuf' = IF ok THEN [dbuf EXCEPT !["d_input"] = "allocated"] ELSE dbuf
       /\ d_input' = IF ok THEN Fresh(H * W) ELSE d_input
       /\ Step("mallocIn", ok, "mallocFil")
  /\ UNCHANGED <<argc, H, W, R, h_input, h_filter, h_output, nFree, misuse,
                 d_filter, d_output, blockDim, gridDim, lastError, stdout, written>>
  /\ UNCHANGED kernelVars

\* err = cudaMalloc((void **)&d_filter, R * R * sizeof(float));
MallocFilter ==
  /\ pc = "mallocFil"
  /\ \E ok \in BOOLEAN :
       /\ err' = ErrOf(ok)
       /\ nAlloc' = [nAlloc EXCEPT !["d_filter"] = @ + 1]
       /\ dbuf' = IF ok THEN [dbuf EXCEPT !["d_filter"] = "allocated"] ELSE dbuf
       /\ d_filter' = IF ok THEN Fresh(R * R) ELSE d_filter
       /\ Step("mallocFil", ok, "mallocOut")
  /\ UNCHANGED <<argc, H, W, R, h_input, h_filter, h_output, nFree, misuse,
                 d_input, d_output, blockDim, gridDim, lastError, stdout, written>>
  /\ UNCHANGED kernelVars

\* err = cudaMalloc((void **)&d_output, H * W * sizeof(float));
MallocOutput ==
  /\ pc = "mallocOut"
  /\ \E ok \in BOOLEAN :
       /\ err' = ErrOf(ok)
       /\ nAlloc' = [nAlloc EXCEPT !["d_output"] = @ + 1]
       /\ dbuf' = IF ok THEN [dbuf EXCEPT !["d_output"] = "allocated"] ELSE dbuf
       /\ d_output' = IF ok THEN Fresh(H * W) ELSE d_output
       /\ Step("mallocOut", ok, "cpyIn")
  /\ UNCHANGED <<argc, H, W, R, h_input, h_filter, h_output, nFree, misuse,
                 d_input, d_filter, blockDim, gridDim, lastError, stdout, written>>
  /\ UNCHANGED kernelVars

\* err = cudaMemcpy(d_input, h_input, H * W * sizeof(float), cudaMemcpyHostToDevice);
CopyInput ==
  /\ pc = "cpyIn"
  /\ \E ok \in BOOLEAN :
       /\ err' = ErrOf(ok)
       /\ misuse' = (misuse \/ dbuf["d_input"] # "allocated")
       /\ d_input' = IF ok THEN [k \in 0..(H * W - 1) |-> At(h_input, k)] ELSE d_input
       /\ Step("cpyIn", ok, "cpyFil")
  /\ UNCHANGED <<argc, H, W, R, h_input, h_filter, h_output, dbuf, nAlloc, nFree,
                 d_filter, d_output, blockDim, gridDim, lastError, stdout, written>>
  /\ UNCHANGED kernelVars

\* err = cudaMemcpy(d_filter, h_filter, R * R * sizeof(float), cudaMemcpyHostToDevice);
CopyFilter ==
  /\ pc = "cpyFil"
  /\ \E ok \in BOOLEAN :
       /\ err' = ErrOf(ok)
       /\ misuse' = (misuse \/ dbuf["d_filter"] # "allocated")
       /\ d_filter' = IF ok THEN [k \in 0..(R * R - 1) |-> At(h_filter, k)] ELSE d_filter
       /\ Step("cpyFil", ok, "plan")
  /\ UNCHANGED <<argc, H, W, R, h_input, h_filter, h_output, dbuf, nAlloc, nFree,
                 d_input, d_output, blockDim, gridDim, lastError, stdout, written>>
  /\ UNCHANGED kernelVars

\* Blocks that cover n elements, a floor instead of a ceiling: n / t
FloorDiv(n, t) == n \div t

\* (n + 15) / 16 for a block of side t = 16
CeilDiv(n, t) == (n + (t - 1)) \div t

\* dim3 gridDim((W + 15) / 16, (H + 15) / 16);
PlanGrid ==
  /\ pc = "plan"
  /\ gridDim' = <<CeilDiv(W, blockDim[1]), CeilDiv(H, blockDim[2])>>
  /\ pc' = "launch"
  /\ UNCHANGED <<argc, exitCode, failedAt, err, H, W, R, h_input, h_filter,
                 h_output, dbuf, nAlloc, nFree, misuse, d_input, d_filter,
                 d_output, blockDim, lastError, stdout, written, stepFailed>>
  /\ UNCHANGED kernelVars

\* conv2d_kernel<<<gridDim, blockDim>>>(d_input, d_filter, d_output, H, W, R);
\* The launch returns at once; a grid with an empty dimension is refused.
Launch ==
  /\ pc = "launch"
  /\ \E ok \in BOOLEAN :
       /\ ok => gridDim[1] > 0 /\ gridDim[2] > 0
       /\ lastError' = ErrOf(ok)
       /\ wpc' = IF ok THEN [w \in GridWorkers |-> "ready"] ELSE wpc
  /\ misuse' = (misuse \/ \E b \in Buffers : dbuf[b] # "allocated")
  /\ writers' = [k \in 0..(H * W - 1) |-> {}]
  /\ nWrites' = [k \in 0..(H * W - 1) |-> 0]
  /\ pc' = "lastErr"
  /\ UNCHANGED <<argc, exitCode, failedAt, err, H, W, R, h_input, h_filter,
                 h_output, dbuf, nAlloc, nFree, d_input, d_filter, d_output,
                 blockDim, gridDim, stdout, written, stepFailed>>
  /\ UNCHANGED <<oobWrite, touched, readFaults, devFault, junk>>

\* err = cudaGetLastError();
CheckLaunch ==
  /\ pc = "lastErr"
  /\ err' = lastError
  /\ Step("lastErr", lastError = "cudaSuccess", "hmalloc")
  /\ UNCHANGED <<argc, H, W, R, h_input, h_filter, h_output, dbuf, nAlloc, nFree,
                 misuse, d_input, d_filter, d_output, blockDim, gridDim,
                 lastError, stdout, written>>
  /\ UNCHANGED kernelVars

\* float *h_output = (float *)malloc(H * W * sizeof(float));
MallocHostOutput ==
  /\ pc = "hmalloc"
  /\ \E ok \in BOOLEAN :
       /\ h_output' = IF ok THEN Fresh(H * W) ELSE h_output
       /\ Step("hmalloc", ok, "cpyOut")
  /\ UNCHANGED <<argc, err, H, W, R, h_input, h_filter, dbuf, nAlloc, nFree,
                 misuse, d_input, d_filter, d_output, blockDim, gridDim,
                 lastError, stdout, written>>
  /\ UNCHANGED kernelVars

\* The output printed whatever the copy returned.
CopyOutputUnchecked(ok) == "write"

\* The check of the device-to-host copy, before writeOutput.
CopyOutputCheck(ok) == AfterCall(ok, "write")

\* err = cudaMemcpy(h_output, d_output, H * W * sizeof(float), cudaMemcpyDeviceToHost);
\* The copy waits for the kernel, and reports a fault of the kernel.
CopyOutput ==
  /\ pc = "cpyOut"
  /\ KernelDone \/ devFault
  /\ \E ok \in BOOLEAN :
       /\ devFault => ~ok
       /\ err' = ErrOf(ok)
       /\ h_output' = IF ok THEN [k \in 0..(H * W - 1) |-> At(d_output, k)]
                            ELSE h_output
       /\ StepTo("cpyOut", ok, CopyOutputCheck(ok))
  /\ misuse' = (misuse \/ dbuf["d_output"] # "allocated")
  /\ UNCHANGED <<argc, H, W, R, h_input, h_filter, dbuf, nAlloc, nFree,
                 d_input, d_filter, d_output, blockDim, gridDim, lastError,
                 stdout, written>>
  /\ UNCHANGED kernelVars

\* writeOutput(h_output, H, W): h_output[i * W + j] for i < H, j < W, in order
writeOutput ==
  /\ pc = "write"
  /\ stdout' = [k \in 1..(H * W) |->
                  At(h_output, ((k - 1) \div W) * W + ((k - 1) % W))]
  /\ written' = TRUE
  /\ pc' = "freeIn"
  /\ UNCHANGED <<argc, exitCode, failedAt, err, H, W, R, h_input, h_filter,
                 h_output, dbuf, nAlloc, nFree, misuse, d_input, d_filter,
                 d_output, blockDim, gridDim, lastError, stepFailed>>
  /\ UNCHANGED kernelVars

\* Every cudaFree releasing d_input.
FreeTargetSame(at) == "d_input"

\* The pointer each cudaFree statement passes.
FreeTarget(at) ==
  CASE at = "freeIn" -> "d_input"
    [] at = "freeFil" -> "d_filter"
    [] at = "freeOut" -> "d_output"

\* err = cudaFree(p); and its check
Free(at, next) ==
  /\ pc = at
  /\ LET b == FreeTarget(at)
     IN  \E ok \in BOOLEAN :
           /\ err' = ErrOf(ok)
           /\ nFree' = [nFree EXCEPT ![b] = @ + 1]
           /\ misuse' = (misuse \/ dbuf[b] # "allocated")
           /\ dbuf' = IF ok THEN [dbuf EXCEPT ![b] = "released"] ELSE dbuf
           /\ Step(at, ok, next)
  /\ UNCHANGED <<argc, H, W, R, h_input, h_filter, h_output, nAlloc,
                 d_input, d_filter, d_output, blockDim, gridDim, lastError,
                 stdout, written>>
  /\ UNCHANGED kernelVars

FreeInput == Free("freeIn", "freeFil")

FreeFilter == Free("freeFil", "freeOut")

FreeOutput == Free("freeOut", "reset")

\* free(h_input); free(h_filter); free(h_output); err = cudaDeviceReset();
\* printf("Done\n"); return 0;
DeviceReset ==
  /\ pc = "reset"
  /\ \E ok \in BOOLEAN :
       /\ err' = ErrOf(ok)
       /\ pc' = AfterCall(ok, "exit0")
       /\ failedAt' = IF pc' = "failed" THEN "reset" ELSE failedAt
       /\ exitCode' = IF pc' = "failed" THEN EXIT_FAILURE ELSE 0
       /\ stepFailed' = (stepFailed \/ ~ok)
  /\ UNCHANGED <<argc, H, W, R, h_input, h_filter, h_output, dbuf, nAlloc, nFree,
                 misuse, d_input, d_filter, d_output, blockDim, gridDim,
                 lastError, stdout, written>>
  /\ UNCHANGED kernelVars

----------------------------------------------------------------------------
(* The program.  The kernel reads blockDim and is the same code under any   *)
(* block: this specification launches blocks of BlockSide x BlockSide       *)
(* threads in place of main's 16 x 16, so that every order of the threads   *)
(* of a grid can be enumerated; SpecGrid below plans the grid under the     *)
(* 16 x 16 block.  Filter sides are odd, as the data model asks.            *)

Init ==
  /\ argc \in 1..3
  /\ pc = "args"
  /\ exitCode = Running
  /\ failedAt = "none"
  /\ err = "cudaSuccess"
  /\ H = 0 /\ W = 0 /\ R = 0
  /\ h_input = <<>> /\ h_filter = <<>> /\ h_output = <<>>
  /\ dbuf = [b \in Buffers |-> "null"]
  /\ nAlloc = [b \in Buffers |-> 0]
  /\ nFree = [b \in Buffers |-> 0]
  /\ misuse = FALSE
  /\ d_input = <<>> /\ d_filter = <<>> /\ d_output = <<>>
  /\ blockDim = <<BlockSide, BlockSide>>
  /\ gridDim = <<0, 0>>
  /\ lastError = "cudaSuccess"
  /\ wpc = <<>>
  /\ writers = <<>>
  /\ nWrites = <<>>
  /\ oobWrite = FALSE
  /\ touched = {}
  /\ readFaults = {}
  /\ devFault = FALSE
  /\ junk = Unset
  /\ stdout = <<>>
  /\ written = FALSE
  /\ stepFailed = FALSE

Host ==
  \/ CheckArgs \/ readInput \/ readFilter \/ HostCheck
  \/ MallocInput \/ MallocFilter \/ MallocOutput
  \/ CopyInput \/ CopyFilter
  \/ PlanGrid \/ Launch \/ CheckLaunch
  \/ MallocHostOutput \/ CopyOutput \/ writeOutput
  \/ FreeInput \/ FreeFilter \/ FreeOutput \/ DeviceReset

Device == \E w \in DOMAIN wpc : Worker(w)

Next == Host \/ Device

Spec == Init /\ [][Next]_vars

----------------------------------------------------------------------------
(* The grid planner alone, on matrices of up to GridMaxDim rows and         *)
(* columns and the 16x16 block of main: the program at the statement that   *)
(* computes gridDim, the inputs on the device.                              *)

InitGrid ==
  /\ argc = 3
  /\ pc = "plan"
  /\ exitCode = Running
  /\ failedAt = "none"
  /\ err = "cudaSuccess"
  /\ H \in 1..GridMaxDim
  /\ W \in 1..GridMaxDim
  /\ R = 1
  /\ h_input = FileValues("pos", H * W)
  /\ h_filter = FileValues("pos", 1)
  /\ h_output = <<>>
  /\ dbuf = [b \in Buffers |-> "allocated"]
  /\ nAlloc = [b \in Buffers |-> 1]
  /\ nFree = [b \in Buffers |-> 0]
  /\ misuse = FALSE
  /\ d_input = h_input
  /\ d_filter = h_filter
  /\ d_output = Fresh(H * W)
  /\ blockDim = <<TILE, TILE>>
  /\ gridDim = <<0, 0>>
  /\ lastError = "cudaSuccess"
  /\ wpc = <<>>
  /\ writers = <<>>
  /\ nWrites = <<>>
  /\ oobWrite = FALSE
  /\ touched = {}
  /\ readFaults = {}
  /\ devFault = FALSE
  /\ junk = Unset
  /\ stdout = <<>>
  /\ written = FALSE
  /\ stepFailed = FALSE

NextGrid == PlanGrid

SpecGrid == InitGrid /\ [][NextGrid]_vars

----------------------------------------------------------------------------
(* What the specification asks of the kernel, stated apart from the code.   *)

RECURSIVE SumTerms(_)
\* The sum of the second components of a set of <<tag, value>> pairs.
SumTerms(S) ==
  IF S = {} THEN 0
  ELSE LET x == CHOOSE y \in S : TRUE
       IN  x[2] + SumTerms(S \ {x})

\* The taps of the window at (row, col) that fall inside the H x W matrix.
ValidTaps(row, col) ==
  {t \in ((0 - Pad)..Pad) \X ((0 - Pad)..Pad) :
     /\ 0 <= row + t[1] /\ row + t[1] < H
     /\ 0 <= col + t[2] /\ col + t[2] < W}

\* The zero-padded convolution at (row, col).
Expected(row, col) ==
  SumTerms({<<t, h_input[(row + t[1]) * W + (col + t[2])]
                   * h_filter[(t[1] + Pad) * R + (t[2] + Pad)]>> :
            t \in ValidTaps(row, col)})

\* The kernel has run over the whole grid of a well-formed launch.
KernelRan ==
  /\ KernelDone
  /\ H >= 1 /\ W >= 1 /\ R % 2 = 1
  /\ DOMAIN d_output = 0..(H * W - 1)

\* C1: after the kernel has run over the planned grid, every output element
\* is the sum of input * filter over exactly the taps inside the matrix, the
\* row tested against H and the column against W.
C1_ZeroPaddedConvolution ==
  KernelRan =>
    \A row \in 0..(H - 1), col \in 0..(W - 1) :
      d_output[row * W + col] = Expected(row, col)

\* C2: with R = 1 and the single filter value 1, the output equals the input
\* at every element.
C2_IdentityFilter ==
  (KernelRan /\ R = 1 /\ h_filter[0] = 1) =>
    \A row \in 0..(H - 1), col \in 0..(W - 1) :
      d_output[row * W + col] = h_input[row * W + col]

Corners == {<<0, 0>>, <<0, W - 1>>, <<H - 1, 0>>, <<H - 1, W - 1>>}

\* The positions of the matrix within one step of p, p included.
Neighbours(p) ==
  {q \in (0..(H - 1)) \X (0..(W - 1)) :
     /\ q[1] - p[1] \in {0 - 1, 0, 1}
     /\ q[2] - p[2] \in {0 - 1, 0, 1}}

\* C3: with R = 3 and a filter of one value v, each corner of the output is
\* v times the sum of the input over the corner's neighbours inside the
\* matrix.
C3_CornerZeroPad ==
  (KernelRan /\ R = 3 /\ \A k \in DOMAIN h_filter : h_filter[k] = h_filter[0]) =>
    \A p \in Corners :
      d_output[p[1] * W + p[2]]
        = h_filter[0] * SumTerms({<<q, h_input[q[1] * W + q[2]]>> :
                                   q \in Neighbours(p)})

\* C10: every read of the kernel is inside its buffer, and every read of the
\* input is at a column below W.
C10_ReadsInBounds == readFaults = {}

\* C4: no write lands outside the output; only workers whose (row, col) is
\* inside the matrix touch device memory; an output index is written at most
\* once, by the worker whose (row, col) maps to it, and exactly once when the
\* kernel has run.
C4_OneWriterPerElement ==
  /\ ~oobWrite
  /\ \A w \in touched : Row(w) < H /\ Col(w) < W
  /\ \A idx \in DOMAIN writers :
       /\ nWrites[idx] <= 1
       /\ Cardinality(writers[idx]) = nWrites[idx]
       /\ \A w \in writers[idx] :
            Row(w) < H /\ Col(w) < W /\ Row(w) * W + Col(w) = idx
  /\ KernelDone =>
       /\ DOMAIN writers = 0..(H * W - 1)
       /\ \A idx \in 0..(H * W - 1) : nWrites[idx] = 1
       /\ \A w \in DOMAIN wpc : (Row(w) >= H \/ Col(w) >= W) => w \notin touched

\* The kernel has run on a matrix of several elements under a grid with
\* workers beyond the matrix.
C4_Witness ==
  /\ KernelDone
  /\ H * W >= 2
  /\ \E w \in DOMAIN wpc : Row(w) >= H \/ Col(w) >= W
  /\ \A idx \in 0..(H * W - 1) : Cardinality(writers[idx]) = 1

\* C5: the planned grid is (ceil(W/16), ceil(H/16)): the least numbers of
\* 16-wide blocks that reach W and H, so it overshoots by fewer than 16; and
\* every (row, col) of the matrix is the coordinate of a worker of the grid.
C5_GridCovers ==
  pc = "launch" =>
    /\ gridDim[1] * TILE >= W /\ (gridDim[1] - 1) * TILE < W
    /\ gridDim[2] * TILE >= H /\ (gridDim[2] - 1) * TILE < H
    /\ gridDim[1] * TILE - W < TILE /\ gridDim[2] * TILE - H < TILE
    /\ \A row \in 0..(H - 1) :
         \E by \in 0..(gridDim[2] - 1), ty \in 0..(TILE - 1) :
           Row(<<0, by, 0, ty>>) = row
    /\ \A col \in 0..(W - 1) :
         \E bx \in 0..(gridDim[1] - 1), tx \in 0..(TILE - 1) :
           Col(<<bx, 0, tx, 0>>) = col

\* A matrix that needs two rows and three columns of blocks.
C5_Witness == pc = "launch" /\ H = 17 /\ W = 33 /\ gridDim = <<3, 2>>

----------------------------------------------------------------------------
(* What the specification asks of the host.                                 *)

\* The stage a statement of main belongs to.
StageNo(p) ==
  CASE p \in {"args", "readInput", "readFilter", "hostCheck"} -> 1
    [] p \in {"mallocIn", "mallocFil", "mallocOut"} -> 2
    [] p \in {"cpyIn", "cpyFil"} -> 3
    [] p = "plan" -> 4
    [] p \in {"launch", "lastErr"} -> 5
    [] p \in {"hmalloc", "cpyOut", "write"} -> 6
    [] p \in {"freeIn", "freeFil", "freeOut", "reset"} -> 7
    [] p = "exit0" -> 8
    [] p = "failed" -> 0

\* C6: the stages Init, AllocateDeviceBuffers, TransferInputs, PlanGrid,
\* Dispatch, TransferOutput, ReleaseDeviceBuffers, Done are entered one after
\* the other, the last-error check right after the launch; a device call
\* that fails leaves the run in Failed; Failed is never left.
C6_StageOrder ==
  [][/\ StageNo(pc') # StageNo(pc) =>
          (pc' = "failed" \/ StageNo(pc') = StageNo(pc) + 1)
     /\ pc = "launch" /\ pc' # pc => pc' = "lastErr"
     /\ err' # "cudaSuccess" => pc' = "failed"
     /\ pc' # "failed" /\ StageNo(pc') # StageNo(pc) => err' = "cudaSuccess"
     /\ pc = "failed" => pc' = "failed"]_vars

\* The device-to-host copy failed after every earlier stage succeeded.
C6_Witness ==
  /\ pc = "failed" /\ failedAt = "cpyOut" /\ err = "cudaError"
  /\ KernelDone /\ ~written

Teardown == {"freeIn", "freeFil", "freeOut", "reset"}

C8_ExitZeroIffAllSucceeded ==
  pc \in {"exit0", "failed"} => (exitCode = 0 <=> ~stepFailed)

\* The buffers a run has released when it fails at a statement.
ReleasedBefore(at) ==
  CASE at = "freeFil" -> {"d_input"}
    [] at = "freeOut" -> {"d_input", "d_filter"}
    [] at = "reset" -> Buffers
    [] OTHER -> {}

\* C9: each device buffer is allocated at most once and released at most
\* once, and is used only while allocated; a run that reaches Done has
\* released all three; a failed run has released only what it released
\* before the failure.
C9_SingleOwner ==
  /\ \A b \in Buffers :
       /\ nAlloc[b] <= 1 /\ nFree[b] <= 1
       /\ dbuf[b] # "null" => nAlloc[b] = 1
       /\ dbuf[b] = "released" => nFree[b] = 1
  /\ ~misuse
  /\ pc = "exit0" => \A b \in Buffers : dbuf[b] = "released"
  /\ pc = "failed" =>
       {b \in Buffers : dbuf[b] = "released"} = ReleasedBefore(failedAt)

\* A run that reached Done, and so used and released every buffer.
C9_Witness ==
  /\ pc = "exit0" /\ written
  /\ \A b \in Buffers : dbuf[b] = "released" /\ nAlloc[b] = 1 /\ nFree[b] = 1

====
